---- MODULE Spec2Model ----
(***************************************************************************)
(* rax_clb_nodes: add, modify and remove nodes of a Rackspace Cloud Load   *)
(* Balancer (src/cloud/rackspace/rax_clb_nodes.py).                        *)
(*                                                                         *)
(* One run of main() is a chain of steps: the module parameters are read   *)
(* (Invoke), the balancer is fetched and the node looked up (Get...), one  *)
(* reconciliation branch is taken (Absent... / Present... / DeleteNode...  *)
(* / AddNodes... / UpdateNode...), and the status is polled when wait is   *)
(* set (Poll...).  The remote balancer (remote) outlives the run; a run    *)
(* may be followed by re-runs of the same task (Reinvoke).                 *)
(*                                                                         *)
(* Spec starts a run with any parameters of Params on any balancer of      *)
(* InitNodeLists; WaitSpec starts the runs of WaitParams, the ones that    *)
(* may wait, and lets main() run to its end.                               *)
(*                                                                         *)
(* pyrax is the collaborator: each of its calls either succeeds or raises, *)
(* which the model leaves to a nondeterministic choice.                    *)
(***************************************************************************)
EXTENDS Integers, Sequences, FiniteSets, TLC

\* ---------------------------------------------------------------- bounds
MaxNodes == 2
MaxWeight == 2
MaxWaitTimeout == 2
MaxRuns == 2

\* wait_timeout=dict(default=30, type='int')
DefaultWaitTimeout == 30

\* ---------------------------------------------------------------- values
\* Python's None, and a supplied value v, of an optional parameter.
None == <<>>
Some(v) == <<v>>
Val(o) == o[1]

Addresses == {"10.2.2.3", "10.2.2.4"}
Ports == {80, 81}
InitPorts == {80}
Weights == 1..MaxWeight
InitWeights == {1}
NodeIds == 0..MaxNodes

ConditionChoices == {"enabled", "disabled", "draining"}
TypeChoices == {"primary", "secondary"}
StateChoices == {"present", "absent"}

Conditions == {"ENABLED", "DISABLED", "DRAINING"}
InitConditions == {"ENABLED", "DISABLED"}
Types == {"PRIMARY", "SECONDARY"}
Statuses == {"ACTIVE", "PENDING_UPDATE", "BUILD"}

\* e.message of a PyraxException raised by the collaborator.
ErrMsgs == {"Load balancer is immutable", "Bad request"}
NotFoundMsg == "Node not found at the provider"

\* str.upper() and str.lower() on the strings the module handles.
Upper(s) ==
  CASE s = "enabled" -> "ENABLED"
    [] s = "disabled" -> "DISABLED"
    [] s = "draining" -> "DRAINING"
    [] s = "primary" -> "PRIMARY"
    [] s = "secondary" -> "SECONDARY"
    [] OTHER -> s

Lower(s) ==
  CASE s = "ENABLED" -> "enabled"
    [] s = "DISABLED" -> "disabled"
    [] s = "DRAINING" -> "draining"
    [] s = "PRIMARY" -> "primary"
    [] s = "SECONDARY" -> "secondary"
    [] s = "ACTIVE" -> "active"
    [] s = "PENDING_UPDATE" -> "pending_update"
    [] s = "BUILD" -> "build"
    [] OTHER -> s

\* ---------------------------------------------------------------- state
VARIABLES
  remote,     \* the balancer at the provider: [nodes, status]
  params,     \* module.params of the current run
  pc,         \* position in main(): idle, get, reconcile, wait, done
  lb,         \* the balancer object returned by get(), None before
  node,       \* the node _get_node returned, None when there is none
  mutable,    \* the diff dict of the update branch
  result,     \* the node dict reported under 'node'
  calls,      \* collaborator calls of the current run, in order
  outcome,    \* what exit_json / fail_json reported, None while running
  before,     \* the remote nodes when the current run started
  runs,       \* runs started so far
  prevApplied \* the previous run was state=present and its add or update was applied

vars == <<remote, params, pc, lb, node, mutable, result, calls, outcome, before,
          runs, prevApplied>>

\* ---------------------------------------------------------------- nodes
Node(i, a, p, c, t, w) ==
  [id |-> i, address |-> a, port |-> p, condition |-> c, type |-> t, weight |-> w]

\* The nodes a balancer may hold when the first run starts, ids aside.
InitNodeShapes ==
  {Node(0, a, p, c, t, w) : a \in Addresses, p \in InitPorts, c \in InitConditions,
                            t \in Types, w \in InitWeights}

\* The balancers the first run may meet: up to MaxNodes nodes, ids 1..n.
InitNodeLists ==
  UNION {{[i \in 1..n |-> [f[i] EXCEPT !.id = i]] : f \in [1..n -> InitNodeShapes]}
         : n \in 0..MaxNodes}

\* ---------------------------------------------------------------- requests
Param(nid, a, p, c, st, t, w, wt, wto) ==
  [node_id |-> nid, address |-> a, port |-> p, condition |-> c, state |-> st,
   type |-> t, wait |-> wt, wait_timeout |-> wto, weight |-> w]

Opt(S) == {None} \cup {Some(v) : v \in S}

\* Every way to name a node, with no attribute asked for and no wait.
LookupParams ==
  {Param(nid, a, p, None, st, None, None, FALSE, DefaultWaitTimeout) :
     nid \in Opt(NodeIds), a \in Opt(Addresses), p \in Opt(Ports), st \in StateChoices}

\* A node named by id, or by address and port.
NamedBy ==
  {<<Some(1), None, None>>, <<None, Some("10.2.2.3"), Some(80)>>}

\* Every combination of desired attributes on a named node.
DiffParams ==
  {Param(k[1], k[2], k[3], c, "present", t, w, FALSE, DefaultWaitTimeout) :
     k \in NamedBy, c \in Opt(ConditionChoices), t \in Opt(TypeChoices), w \in Opt(Weights)}

\* Runs on a named node with and without wait, for every wait_timeout up to
\* the bound.
WaitParams ==
  {Param(k[1], k[2], k[3], Some("draining"), st, None, None, wt, wto) :
     k \in NamedBy, st \in StateChoices, wt \in BOOLEAN, wto \in 0..MaxWaitTimeout}

Params == LookupParams \cup DiffParams \cup WaitParams

\* ---------------------------------------------------------------- locals
\* condition = module.params['condition'] and module.params['condition'].upper()
Condition ==
  IF params.condition = None THEN None ELSE Some(Upper(Val(params.condition)))

\* typ = module.params['type'] and module.params['type'].upper()
Typ ==
  IF params.type = None THEN None ELSE Some(Upper(Val(params.type)))

\* wait_timeout without the "or 1".
WaitTimeoutRaw ==
  params.wait_timeout

\* wait_timeout = module.params['wait_timeout'] or 1
WaitTimeout ==
  IF params.wait_timeout = 0 THEN 1 ELSE params.wait_timeout

\* if node_id:
Truthy(o) ==
  o # None /\ Val(o) # 0

\* ---------------------------------------------------------------- helpers
\* _get_node with any(match_list) in the place of all(match_list).
RECURSIVE GetNodeAny(_, _, _, _, _)
GetNodeAny(nodes, i, node_id, address, port) ==
  IF i > Len(nodes) THEN None
  ELSE LET n == nodes[i]
           match_list ==
             (IF node_id # None THEN <<n.id = Val(node_id)>> ELSE <<>>) \o
             (IF address # None THEN <<n.address = Val(address)>> ELSE <<>>) \o
             (IF port # None THEN <<n.port = Val(port)>> ELSE <<>>)
       IN IF \E k \in 1..Len(match_list) : match_list[k]
          THEN Some(n)
          ELSE GetNodeAny(nodes, i + 1, node_id, address, port)

\* for node in getattr(lb, 'nodes', []): ... if match_list and all(match_list)
RECURSIVE GetNodeFrom(_, _, _, _, _)
GetNodeFrom(nodes, i, node_id, address, port) ==
  IF i > Len(nodes) THEN None
  ELSE LET n == nodes[i]
           match_list ==
             (IF node_id # None THEN <<n.id = Val(node_id)>> ELSE <<>>) \o
             (IF address # None THEN <<n.address = Val(address)>> ELSE <<>>) \o
             (IF port # None THEN <<n.port = Val(port)>> ELSE <<>>)
       IN IF match_list # <<>> /\ (\A k \in 1..Len(match_list) : match_list[k])
          THEN Some(n)
          ELSE GetNodeFrom(nodes, i + 1, node_id, address, port)

_get_node(nodes, node_id, address, port) ==
  GetNodeFrom(nodes, 1, node_id, address, port)

_is_primary(n) ==
  Lower(n.type) = "primary" /\ Lower(n.condition) = "enabled"

_get_primary_nodes(nodes) ==
  SelectSeq(nodes, _is_primary)

\* The test of the last primary with the count compared to 0.
LastPrimaryNone(n, nodes) ==
  _is_primary(n) /\ Len(_get_primary_nodes(nodes)) = 0

\* if _is_primary(node) and len(_get_primary_nodes(lb)) == 1:
LastPrimary(n, nodes) ==
  _is_primary(n) /\ Len(_get_primary_nodes(nodes)) = 1

\* mutable = {'condition': condition, 'type': typ, 'weight': weight}
MutableNames == {"condition", "type", "weight"}

Desired(name) ==
  CASE name = "condition" -> Condition
    [] name = "type" -> Typ
    [] name = "weight" -> params.weight

\* The pop without the comparison to the node's value.
PoppedNoneOnly(n, name) ==
  Desired(name) = None

\* if value is None or value == getattr(node, name): mutable.pop(name)
Popped(n, name) ==
  Desired(name) = None \/ Val(Desired(name)) = n[name]

Diff(n) ==
  LET kept == {name \in MutableNames : ~Popped(n, name)}
  IN IF kept = {} THEN <<>> ELSE [name \in kept |-> Val(Desired(name))]

\* result.update(mutable)
Updated(n, d) ==
  [f \in DOMAIN n |-> IF f \in DOMAIN d THEN d[f] ELSE n[f]]

\* ---------------------------------------------------------------- reporting
Msg(text, n, ids, status) ==
  [text |-> text, n |-> n, ids |-> ids, status |-> status]

NoMsg == Msg("", 0, <<>>, "")

\* msg='At least one primary node has to be enabled'
LastPrimaryMsg == Msg("At least one primary node has to be enabled", 0, <<>>, "")

\* msg = 'Node %d not found' (+ ' (available nodes: %s)' if lb.nodes)
NodeNotFoundMsg(node_id, nodes) ==
  Msg("Node not found", node_id, [i \in 1..Len(nodes) |-> nodes[i].id], "")

\* A fixed message in the place of e.message.
FixedMessage(m) == Msg("Request failed", 0, <<>>, "")

\* msg='%s' % e.message
PassThrough(m) == Msg(m, 0, <<>>, "")

\* msg='Load balancer not active after %ds (current status: %s)'
TimeoutMsg(n, status) == Msg("Load balancer not active", n, <<>>, Lower(status))

Call(op, res, m) == [op |-> op, res |-> res, msg |-> m]

Mutations == {"add_nodes", "update_node", "delete_node"}

Polls == Cardinality({i \in 1..Len(calls) : calls[i].op = "wait_until"})

\* module.exit_json(changed=..., state=state, node=...)
exit_json(changed, res) ==
  /\ outcome' = Some([failed |-> FALSE, changed |-> changed, msg |-> NoMsg, node |-> res])
  /\ pc' = "done"

\* module.fail_json(msg=...)
fail_json(m) ==
  /\ outcome' = Some([failed |-> TRUE, changed |-> FALSE, msg |-> m, node |-> None])
  /\ pc' = "done"

\* ---------------------------------------------------------------- collaborator
\* The provider drops the node with this id.
WithoutNode(nodes, id) ==
  SelectSeq(nodes, LAMBDA n : n.id # id)

\* The provider gives a new node an id of its own.
FreshId(nodes) ==
  IF nodes = <<>> THEN 1
  ELSE 1 + (CHOOSE m \in {nodes[i].id : i \in 1..Len(nodes)} :
              \A i \in 1..Len(nodes) : nodes[i].id <= m)

\* pyrax.cloudloadbalancers.Node(address=..., port=..., condition=..., weight=...,
\* type=...): what the provider stores for it, an attribute left out taking the
\* provider's default.
NewNode(nodes) ==
  Node(FreshId(nodes), Val(params.address), Val(params.port),
       IF Condition = None THEN "ENABLED" ELSE Val(Condition),
       IF Typ = None THEN "PRIMARY" ELSE Val(Typ),
       IF params.weight = None THEN 1 ELSE Val(params.weight))

\* The provider takes a node that has an address and a port no node of the
\* balancer has yet.
Accepts(nodes) ==
  /\ params.address # None
  /\ params.port # None
  /\ \A i \in 1..Len(nodes) :
       ~(nodes[i].address = Val(params.address) /\ nodes[i].port = Val(params.port))

\* ---------------------------------------------------------------- spec
NoLb == None

Init ==
  /\ remote \in {[nodes |-> ns, status |-> "ACTIVE"] : ns \in InitNodeLists}
  /\ params = None
  /\ pc = "idle"
  /\ lb = NoLb
  /\ node = None
  /\ mutable = None
  /\ result = None
  /\ calls = <<>>
  /\ outcome = None
  /\ before = remote.nodes
  /\ runs = 0
  /\ prevApplied = FALSE

\* main(): the parameters are read
Invoke(p) ==
  /\ pc = "idle"
  /\ params' = p
  /\ pc' = "get"
  /\ runs' = runs + 1
  /\ UNCHANGED <<remote, lb, node, mutable, result, calls, outcome, before, prevApplied>>

\* The same task is run again on the balancer the last run left.
Reinvoke ==
  /\ pc = "done"
  /\ runs < MaxRuns
  /\ pc' = "get"
  /\ runs' = runs + 1
  /\ prevApplied' = /\ params.state = "present"
                    /\ \E i \in 1..Len(calls) :
                         calls[i].op \in {"add_nodes", "update_node"} /\ calls[i].res = "ok"
  /\ lb' = NoLb
  /\ node' = None
  /\ mutable' = None
  /\ result' = None
  /\ calls' = <<>>
  /\ outcome' = None
  /\ before' = remote.nodes
  /\ UNCHANGED <<remote, params>>

\* lb = pyrax.cloud_loadbalancers.get(load_balancer_id); node = _get_node(...);
\* result = rax_clb_node_to_dict(node)
GetOk ==
  /\ pc = "get"
  /\ lb' = Some(remote)
  /\ node' = _get_node(remote.nodes, params.node_id, params.address, params.port)
  /\ result' = node'
  /\ calls' = Append(calls, Call("get", "ok", ""))
  /\ pc' = "reconcile"
  /\ UNCHANGED <<remote, params, mutable, outcome, before, runs, prevApplied>>

\* except pyrax.exc.PyraxException, e: module.fail_json(msg='%s' % e.message)
GetFail(m) ==
  /\ pc = "get"
  /\ calls' = Append(calls, Call("get", "PyraxException", m))
  /\ fail_json(PassThrough(m))
  /\ UNCHANGED <<remote, params, lb, node, mutable, result, before, runs, prevApplied>>

\* if state == 'absent': if not node: module.exit_json(changed=False, state=state)
AbsentNotFound ==
  /\ pc = "reconcile"
  /\ params.state = "absent"
  /\ node = None
  /\ exit_json(FALSE, None)
  /\ UNCHANGED <<remote, params, lb, node, mutable, result, calls, before, runs, prevApplied>>

\* module.fail_json(msg='At least one primary node has to be enabled')
AbsentLastPrimary ==
  /\ pc = "reconcile"
  /\ params.state = "absent"
  /\ node # None
  /\ LastPrimary(Val(node), Val(lb).nodes)
  /\ fail_json(LastPrimaryMsg)
  /\ UNCHANGED <<remote, params, lb, node, mutable, result, calls, before, runs, prevApplied>>

\* The branch of main() that reaches lb.delete_node(node).
Deleting ==
  /\ pc = "reconcile"
  /\ params.state = "absent"
  /\ node # None
  /\ ~LastPrimary(Val(node), Val(lb).nodes)

\* lb.delete_node(node); result = {}
DeleteNodeOk ==
  /\ Deleting
  /\ remote' = [nodes |-> WithoutNode(remote.nodes, Val(node).id), status |-> "PENDING_UPDATE"]
  /\ result' = None
  /\ calls' = Append(calls, Call("delete_node", "ok", ""))
  /\ pc' = "wait"
  /\ UNCHANGED <<params, lb, node, mutable, outcome, before, runs, prevApplied>>

\* except pyrax.exc.NotFound: module.exit_json(changed=False, state=state)
\* The provider no longer has the node: it was removed after get().
DeleteNodeNotFound ==
  /\ Deleting
  /\ remote' = [remote EXCEPT !.nodes = WithoutNode(remote.nodes, Val(node).id)]
  /\ calls' = Append(calls, Call("delete_node", "NotFound", NotFoundMsg))
  /\ exit_json(FALSE, None)
  /\ UNCHANGED <<params, lb, node, mutable, result, before, runs, prevApplied>>

\* except pyrax.exc.PyraxException, e: module.fail_json(msg='%s' % e.message)
DeleteNodeFail(m) ==
  /\ Deleting
  /\ calls' = Append(calls, Call("delete_node", "PyraxException", m))
  /\ fail_json(PassThrough(m))
  /\ UNCHANGED <<remote, params, lb, node, mutable, result, before, runs, prevApplied>>

\* if not node: if node_id: ... module.fail_json(msg=msg)
PresentNotFound ==
  /\ pc = "reconcile"
  /\ params.state = "present"
  /\ node = None
  /\ Truthy(params.node_id)
  /\ fail_json(NodeNotFoundMsg(Val(params.node_id), Val(lb).nodes))
  /\ UNCHANGED <<remote, params, lb, node, mutable, result, calls, before, runs, prevApplied>>

\* The branch of main() that reaches lb.add_nodes([node]).
Creating ==
  /\ pc = "reconcile"
  /\ params.state = "present"
  /\ node = None
  /\ ~Truthy(params.node_id)

\* resp, body = lb.add_nodes([node]); result.update(body['nodes'][0])
AddNodesOk ==
  /\ Creating
  /\ Accepts(remote.nodes)
  /\ remote' = [nodes |-> Append(remote.nodes, NewNode(remote.nodes)),
                status |-> "PENDING_UPDATE"]
  /\ result' = Some(NewNode(remote.nodes))
  /\ calls' = Append(calls, Call("add_nodes", "ok", ""))
  /\ pc' = "wait"
  /\ UNCHANGED <<params, lb, node, mutable, outcome, before, runs, prevApplied>>

\* except pyrax.exc.PyraxException, e: module.fail_json(msg='%s' % e.message)
AddNodesFail(m) ==
  /\ Creating
  /\ calls' = Append(calls, Call("add_nodes", "PyraxException", m))
  /\ fail_json(PassThrough(m))
  /\ UNCHANGED <<remote, params, lb, node, mutable, result, before, runs, prevApplied>>

\* The branch of main() that computes the diff of an existing node.
Updating ==
  /\ pc = "reconcile"
  /\ params.state = "present"
  /\ node # None

\* The empty-diff exit reporting changed=True.
PresentNoDiffChanged ==
  /\ Updating
  /\ Diff(Val(node)) = <<>>
  /\ mutable' = Diff(Val(node))
  /\ exit_json(TRUE, result)
  /\ UNCHANGED <<remote, params, lb, node, result, calls, before, runs, prevApplied>>

\* if not mutable: module.exit_json(changed=False, state=state, node=result)
PresentNoDiff ==
  /\ Updating
  /\ Diff(Val(node)) = <<>>
  /\ mutable' = Diff(Val(node))
  /\ exit_json(FALSE, result)
  /\ UNCHANGED <<remote, params, lb, node, result, calls, before, runs, prevApplied>>

\* The provider sets the attributes of the diff on the node with this id.
Apply(nodes, id, d) ==
  [i \in 1..Len(nodes) |-> IF nodes[i].id = id THEN Updated(nodes[i], d) ELSE nodes[i]]

\* lb.update_node(node, diff=mutable); result.update(mutable)
UpdateNodeOk ==
  /\ Updating
  /\ Diff(Val(node)) # <<>>
  /\ mutable' = Diff(Val(node))
  /\ remote' = [nodes |-> Apply(remote.nodes, Val(node).id, mutable'),
                status |-> "PENDING_UPDATE"]
  /\ result' = Some(Updated(Val(result), mutable'))
  /\ calls' = Append(calls, Call("update_node", "ok", ""))
  /\ pc' = "wait"
  /\ UNCHANGED <<params, lb, node, outcome, before, runs, prevApplied>>

\* except pyrax.exc.PyraxException, e: module.fail_json(msg='%s' % e.message)
UpdateNodeFail(m) ==
  /\ Updating
  /\ Diff(Val(node)) # <<>>
  /\ mutable' = Diff(Val(node))
  /\ calls' = Append(calls, Call("update_node", "PyraxException", m))
  /\ fail_json(PassThrough(m))
  /\ UNCHANGED <<remote, params, lb, node, result, before, runs, prevApplied>>

\* if wait: (not set) ... module.exit_json(changed=True, state=state, **kwargs)
NoWait ==
  /\ pc = "wait"
  /\ ~params.wait
  /\ exit_json(TRUE, result)
  /\ UNCHANGED <<remote, params, lb, node, mutable, result, calls, before, runs, prevApplied>>

\* The poll without the "if wait:" around it.
PollingUnasked(attempts) ==
  /\ pc = "wait"
  /\ attempts = 0 \/ Polls < attempts

\* pyrax.utils.wait_until(lb, "status", "ACTIVE", interval=1, attempts=wait_timeout)
\* reloads the balancer until its status is ACTIVE, at most attempts times,
\* and without end when attempts is 0.
Polling(attempts) ==
  /\ pc = "wait"
  /\ params.wait
  /\ attempts = 0 \/ Polls < attempts

Reload(s) ==
  /\ remote' = [remote EXCEPT !.status = s]
  /\ lb' = Some([Val(lb) EXCEPT !.status = s])
  /\ calls' = Append(calls, Call("wait_until", "ok", ""))

\* A reload that finds the balancer not ACTIVE, with attempts left.
PollPending(s) ==
  /\ Polling(WaitTimeout)
  /\ s # "ACTIVE"
  /\ WaitTimeout = 0 \/ Polls + 1 < WaitTimeout
  /\ Reload(s)
  /\ UNCHANGED <<params, pc, node, mutable, result, outcome, before, runs, prevApplied>>

\* A reload that finds the balancer ACTIVE: wait_until returns, lb.status is
\* ACTIVE, module.exit_json(changed=True, state=state, **kwargs)
PollActive ==
  /\ Polling(WaitTimeout)
  /\ Reload("ACTIVE")
  /\ exit_json(TRUE, result)
  /\ UNCHANGED <<params, node, mutable, result, before, runs, prevApplied>>

\* The last reload finds the balancer not ACTIVE: wait_until returns,
\* if lb.status != 'ACTIVE': module.fail_json(msg='Load balancer not active ...')
PollTimeout(s) ==
  /\ Polling(WaitTimeout)
  /\ s # "ACTIVE"
  /\ Polls + 1 = WaitTimeout
  /\ Reload(s)
  /\ fail_json(TimeoutMsg(WaitTimeout, s))
  /\ UNCHANGED <<params, node, mutable, result, before, runs, prevApplied>>

\* Every step of main() after the parameters are read, and the re-run.
Step ==
  \/ Reinvoke
  \/ GetOk
  \/ \E m \in ErrMsgs : GetFail(m)
  \/ AbsentNotFound
  \/ AbsentLastPrimary
  \/ DeleteNodeOk
  \/ DeleteNodeNotFound
  \/ \E m \in ErrMsgs : DeleteNodeFail(m)
  \/ PresentNotFound
  \/ AddNodesOk
  \/ \E m \in ErrMsgs : AddNodesFail(m)
  \/ PresentNoDiff
  \/ UpdateNodeOk
  \/ \E m \in ErrMsgs : UpdateNodeFail(m)
  \/ NoWait
  \/ \E s \in Statuses : PollPending(s)
  \/ PollActive
  \/ \E s \in Statuses : PollTimeout(s)

Next ==
  \/ \E p \in Params : Invoke(p)
  \/ Step

Spec == Init /\ [][Next]_vars

\* The runs that may wait, on every balancer.
NextWaiting ==
  \/ \E p \in WaitParams : Invoke(p)
  \/ Step

\* main() runs to its end: a step that can be taken is taken.
WaitSpec == Init /\ [][NextWaiting]_vars /\ WF_vars(NextWaiting)

\* ---------------------------------------------------------------- properties
Running == pc # "idle"
Fetched == Running /\ lb # NoLb
Decided == Fetched /\ pc \in {"wait", "done"}
Done == pc = "done"
Out == Val(outcome)

Called(op) == \E i \in 1..Len(calls) : calls[i].op = op
CalledOk(op) == \E i \in 1..Len(calls) : calls[i].op = op /\ calls[i].res = "ok"
Mutated == \E op \in Mutations : CalledOk(op)
MutatingCalls == {i \in 1..Len(calls) : calls[i].op \in Mutations}

NoOp == Done /\ ~Out.failed /\ ~Out.changed
Ids(nodes) == [i \in 1..Len(nodes) |-> nodes[i].id]

\* A node with type PRIMARY and condition ENABLED.
PrimaryActive(n) == n.type = "PRIMARY" /\ n.condition = "ENABLED"
PrimaryActiveAt(nodes) == {i \in 1..Len(nodes) : PrimaryActive(nodes[i])}

\* The run asks to remove the only primary-active node of the balancer.
RemovesSolePrimary ==
  /\ Decided
  /\ params.state = "absent"
  /\ node # None
  /\ PrimaryActive(Val(node))
  /\ Cardinality(PrimaryActiveAt(Val(lb).nodes)) = 1

\* C1: a state=absent run whose lookup resolves to the only primary-active
\* node of the balancer fails with the safety message; delete_node is not
\* called and the provider's node list is as it was.
C1_SolePrimaryIsNotDeleted ==
  RemovesSolePrimary =>
    /\ Done
    /\ Out.failed
    /\ Out.msg = LastPrimaryMsg
    /\ ~Called("delete_node")
    /\ remote.nodes = before

\* The sole primary-active node of a two-node balancer, named by address and
\* port, was refused.
C1_Witness ==
  /\ RemovesSolePrimary
  /\ Done
  /\ Len(before) = 2
  /\ params.node_id = None
  /\ params.address # None
  /\ params.port # None

\* C2: when the balancer had a primary-active node before a run, it has one
\* after the run.
C2_PrimaryActiveRemains ==
  (Done /\ PrimaryActiveAt(before) # {}) => PrimaryActiveAt(remote.nodes) # {}

\* The run is state=present with a node_id that names no node.
NamesMissingNode ==
  /\ Decided
  /\ params.state = "present"
  /\ params.node_id # None
  /\ node = None

\* C3: a state=present run with a node_id supplied and no matching node fails
\* with the node-not-found message listing the available ids, and add_nodes is
\* not called.
C3_SuppliedIdNeverCreates ==
  NamesMissingNode =>
    /\ Done
    /\ Out.failed
    /\ Out.msg.text = "Node not found"
    /\ Out.msg.n = Val(params.node_id)
    /\ Out.msg.ids = Ids(Val(lb).nodes)
    /\ ~Called("add_nodes")

\* The attributes of the matched node the run asks to change.
DiffersCondition ==
  params.condition # None /\ Upper(Val(params.condition)) # Val(node).condition
DiffersType ==
  params.type # None /\ Upper(Val(params.type)) # Val(node).type
DiffersWeight ==
  params.weight # None /\ Val(params.weight) # Val(node).weight

\* state=present on a matching node with nothing to change.
PresentEmptyDiff ==
  /\ params.state = "present"
  /\ node # None
  /\ ~DiffersCondition /\ ~DiffersType /\ ~DiffersWeight
  /\ MutatingCalls = {}

\* state=absent with no matching node.
AbsentNoMatch ==
  /\ params.state = "absent"
  /\ node = None
  /\ MutatingCalls = {}

\* state=absent on a matched node whose delete_node raised NotFound.
DeleteRaisedNotFound ==
  /\ params.state = "absent"
  /\ node # None
  /\ \E i \in 1..Len(calls) : calls[i].op = "delete_node" /\ calls[i].res = "NotFound"

\* C4 as stated: a run that does not fail reports changed=false exactly for
\* the empty diff and for a delete with no matching node, neither of which
\* calls a mutation, and changed=true for every create, update and delete.
C4_ChangedFlag ==
  (Done /\ Fetched /\ ~Out.failed) =>
    /\ ~Out.changed <=> (PresentEmptyDiff \/ AbsentNoMatch)
    /\ Mutated => Out.changed

\* C4 amended: changed=false is also reported when the node was matched and
\* delete_node raised NotFound.
C4_ChangedFlagAmended ==
  (Done /\ Fetched /\ ~Out.failed) =>
    /\ ~Out.changed <=> (PresentEmptyDiff \/ AbsentNoMatch \/ DeleteRaisedNotFound)
    /\ Mutated <=> Out.changed

\* A delete whose delete_node raised NotFound ended with changed=false.
C4_Witness ==
  /\ Done
  /\ Fetched
  /\ DeleteRaisedNotFound
  /\ ~Out.failed
  /\ ~Out.changed

\* C5: on a matching node of a state=present run the diff holds exactly the
\* attributes whose desired value is given and differs from the node's, each
\* with the desired value; an empty diff ends in NO_OP without update_node,
\* any other diff is passed to update_node.
C5_DiffIsMinimal ==
  (Decided /\ params.state = "present" /\ node # None) =>
    /\ DOMAIN mutable = {name \in MutableNames :
                           \/ name = "condition" /\ DiffersCondition
                           \/ name = "type" /\ DiffersType
                           \/ name = "weight" /\ DiffersWeight}
    /\ DiffersCondition => mutable["condition"] = Upper(Val(params.condition))
    /\ DiffersType => mutable["type"] = Upper(Val(params.type))
    /\ DiffersWeight => mutable["weight"] = Val(params.weight)
    /\ IF DiffersCondition \/ DiffersType \/ DiffersWeight
       THEN Called("update_node")
       ELSE NoOp /\ ~Called("update_node")

\* An update was sent with the weight alone in the diff, the desired condition
\* and type being those the node has.
C5_Witness ==
  /\ Decided
  /\ params.state = "present"
  /\ node # None
  /\ params.condition # None
  /\ params.type # None
  /\ CalledOk("update_node")
  /\ DOMAIN mutable = {"weight"}

\* C6: the run after a state=present run whose add or update was applied,
\* with the same parameters, is a NO_OP that calls neither add_nodes nor
\* update_node.
C6_PresentIsIdempotent ==
  (Decided /\ prevApplied) =>
    /\ NoOp
    /\ ~Called("add_nodes")
    /\ ~Called("update_node")

\* The attempt ceiling: wait_timeout, and 1 when wait_timeout is 0.
Ceiling == IF params.wait_timeout = 0 THEN 1 ELSE params.wait_timeout

\* The run waits after a mutation that was applied.
Waited == Done /\ params.wait /\ Mutated

\* C7 as stated: the status is polled at most wait_timeout times, and a
\* timeout is reported after exactly wait_timeout polls.
C7_PolledAtMostWaitTimeout ==
  Running =>
    /\ Polls <= params.wait_timeout
    /\ (Waited /\ Out.failed) => Polls = params.wait_timeout

PollsAreBounded ==
  Running =>
    /\ Polls <= Ceiling
    /\ Waited =>
         /\ Polls >= 1
         /\ IF Val(lb).status = "ACTIVE"
            THEN ~Out.failed /\ Out.changed
            ELSE /\ Out.failed
                 /\ Polls = Ceiling
                 /\ Out.msg.text = "Load balancer not active"
                 /\ Out.msg.n = Ceiling
                 /\ Val(lb).status = "BUILD" => Out.msg.status = "build"
                 /\ Val(lb).status = "PENDING_UPDATE" => Out.msg.status = "pending_update"

\* C7 amended: the ceiling is wait_timeout, or 1 when wait_timeout is 0.  The
\* status is polled at most that many times; ACTIVE within them ends the run
\* with changed=true, otherwise the run fails after exactly that many polls,
\* reporting the ceiling and the last status seen; the poll loop ends.
C7_PollsBoundedAndEnd ==
  /\ []PollsAreBounded
  /\ (pc = "wait") ~> (pc = "done")

\* A run with wait_timeout=2 timed out after two polls.
C7_Witness ==
  /\ Waited
  /\ Out.failed
  /\ params.wait_timeout = 2
  /\ Polls = 2

\* A run with wait_timeout=0 was polled once.
C7_ZeroWitness ==
  /\ Waited
  /\ params.wait_timeout = 0
  /\ Polls = 1

FailedCalls == {i \in 1..Len(calls) : calls[i].res # "ok"}

\* C8 as stated: a failure raised by get, add_nodes, update_node or
\* delete_node ends the run in FAIL with the collaborator's message.
C8_FailureIsFatal ==
  \A i \in FailedCalls :
    /\ Done
    /\ Out.failed
    /\ Out.msg.text = calls[i].msg

\* C8 amended: except NotFound raised by delete_node, which ends the run
\* with changed=false and no failure.
C8_FailureIsFatalAmended ==
  \A i \in FailedCalls :
    /\ Done
    /\ i = Len(calls)
    /\ IF calls[i].op = "delete_node" /\ calls[i].res = "NotFound"
       THEN ~Out.failed /\ ~Out.changed
       ELSE Out.failed /\ Out.msg.text = calls[i].msg /\ ~Out.changed

\* update_node raised and the run failed with its message.
C8_Witness ==
  /\ Done
  /\ Out.failed
  /\ \E i \in FailedCalls : calls[i].op = "update_node" /\ Out.msg.text = calls[i].msg

\* The node meets every criterion the run supplies.
Satisfies(n) ==
  /\ params.node_id # None => n.id = Val(params.node_id)
  /\ params.address # None => n.address = Val(params.address)
  /\ params.port # None => n.port = Val(params.port)

AnyCriterion ==
  params.node_id # None \/ params.address # None \/ params.port # None

\* C9: with a criterion supplied, the lookup returns the first node of the
\* balancer that meets every supplied criterion, and None when no node does.
C9_LookupReturnsFirstMatch ==
  (Fetched /\ AnyCriterion) =>
    LET nodes == Val(lb).nodes
        matching == {i \in 1..Len(nodes) : Satisfies(nodes[i])}
    IN IF matching = {}
       THEN node = None
       ELSE \E i \in matching :
              /\ \A j \in matching : i <= j
              /\ node = Some(nodes[i])

\* Two nodes share the address looked up and the first of them is returned.
C9_Witness ==
  /\ Fetched
  /\ params.node_id = None
  /\ params.address # None
  /\ Cardinality({i \in 1..Len(Val(lb).nodes) : Satisfies(Val(lb).nodes[i])}) = 2
  /\ node = Some(Val(lb).nodes[1])

\* C10: get is the first call and the only get; at most one mutating call is
\* made, right after it; the status is polled only with wait set and after
\* the mutating call succeeded; a NO_OP and a failure other than the timeout
\* see no poll; the safety and node-not-found failures see no mutating call.
C10_OrderOfCalls ==
  Running =>
    /\ \A i \in 1..Len(calls) : calls[i].op = "get" <=> i = 1
    /\ \A i \in MutatingCalls : i = 2 /\ calls[1].res = "ok"
    /\ \A i \in 1..Len(calls) :
         calls[i].op = "wait_until" => params.wait /\ i > 2 /\ calls[2].res = "ok"
    /\ (NoOp \/ (Done /\ Out.failed /\ Out.msg.text # "Load balancer not active"))
         => Polls = 0
    /\ (Done /\ Out.failed /\ Out.msg.text \in {LastPrimaryMsg.text, "Node not found"})
         => MutatingCalls = {}

\* A waiting run polled twice after its one mutating call.
C10_Witness ==
  /\ Done
  /\ Len(calls) = 4
  /\ calls[2].op \in Mutations
  /\ calls[3].op = "wait_until"
  /\ calls[4].op = "wait_until"
====
